---- MODULE Spec2Model ----
(***************************************************************************)
(* Workflow orchestration engine of the AI_agent repository:               *)
(*   utils/json_validator.py   WorkflowValidator, validate_workflow_file   *)
(*   agents/base_agent.py      BaseAgent.execute                           *)
(*   langgraph_builder.py      LangGraphWorkflowBuilder                    *)
(*                                                                         *)
(* Python values are tagged records.  A Python str is a sequence of        *)
(* tokens: the delimiters "{{", "}}", "." and identifier-like words, so    *)
(* that str.split, the `in` test and re.search are computed on the text.   *)
(* A dict is a function from keys to values; where iteration order is      *)
(* observable the keys are visited in KeyOrder (the insertion order of     *)
(* the documents below).                                                   *)
(***************************************************************************)
EXTENDS Integers, Sequences, FiniteSets, TLC

VARIABLES
    doc,        \* workflow_data: the steps of the loaded document
    pc,         \* position of the caller of LangGraphWorkflowBuilder
    depsOk,     \* what validate_dependencies returned and logged
    raised,     \* the exception that left validate_workflow_file / execute
    state,      \* the channels of the compiled StateGraph (the RunState)
    node,       \* index of the next node of the chain
    calls,      \* every agent.execute call of the run: step, agent, input, out
    inPlace,    \* whether the node sees the channel's own list object
    stats,      \* per agent instance: execution_count, total and last time
    result,     \* what the last direct call of BaseAgent.execute gave its caller
    checkpoints, \* self.checkpointer (MemorySaver): thread_id -> saved channels
    clock,      \* datetime.now(), in whole seconds
    initial_input, \* the initial_input argument of execute()
    returned    \* per agent instance: the execute calls that returned success

vars == <<doc, pc, depsOk, raised, state, node, calls, inPlace, stats, result,
          checkpoints, clock, initial_input, returned>>

(***************************** Python values *******************************)
None == [t |-> "none"]
Str(s) == [t |-> "str", s |-> s]
Num(n) == [t |-> "num", n |-> n]
Bool(b) == [t |-> "bool", b |-> b]
Dict(d) == [t |-> "dict", d |-> d]
List(l) == [t |-> "list", l |-> l]
EmptyDict == Dict(<<>>)

Ok(v) == [raised |-> FALSE, value |-> v]
Raise(type, msg) == [raised |-> TRUE, exc |-> [type |-> type, msg |-> msg]]

Min(S) == CHOOSE x \in S : \A y \in S : x <= y

\* `tok in s`
Contains(s, tok) == \E i \in 1..Len(s) : s[i] = tok

\* s.find(tok), 1-based; 0 when absent
IndexOf(s, tok) ==
    IF Contains(s, tok) THEN Min({i \in 1..Len(s) : s[i] = tok}) ELSE 0

\* s.split(sep)
RECURSIVE Split(_, _)
Split(s, sep) ==
    IF ~Contains(s, sep) THEN <<s>>
    ELSE <<SubSeq(s, 1, IndexOf(s, sep) - 1)>>
         \o Split(SubSeq(s, IndexOf(s, sep) + 1, Len(s)), sep)

\* re.search(r'\{\{(.+?)\}\}', s): group(1) of the leftmost match, lazily
\* closed by the first "}}" that leaves the group non-empty
MatchStarts(s) ==
    {i \in 1..Len(s) : s[i] = "{{" /\ \E j \in (i + 2)..Len(s) : s[j] = "}}"}

MatchAt(s, i) ==
    [matched |-> TRUE,
     group |-> SubSeq(s, i + 1, Min({j \in (i + 2)..Len(s) : s[j] = "}}"}) - 1)]

RegexSearch(s) ==
    IF MatchStarts(s) = {} THEN [matched |-> FALSE]
    ELSE MatchAt(s, Min(MatchStarts(s)))

\* isinstance(value, str) and "{{" in value and "}}" in value
IsReference(v) == v.t = "str" /\ Contains(v.s, "{{") /\ Contains(v.s, "}}")

(************************ utils/json_validator.py **************************)
\* the characters of each step id the documents use: letter, digit, "_", "-"
IdChars ==
    [prospect_search |-> <<"a", "_", "a">>,
     enrichment |-> <<"a">>,
     scoring |-> <<"a">>,
     outreach_content |-> <<"a", "_", "a">>,
     send |-> <<"a">>,
     response_tracking |-> <<"a", "_", "a">>,
     feedback_trainer |-> <<"a", "_", "a">>,
     custom |-> <<"a", "1">>,
     errors |-> <<"a">>,
     bad_dash |-> <<"a", "-", "a">>]

\* WorkflowStep.validate_id: v.replace('_', '').isalnum()
validate_id(v) ==
    LET stripped == SelectSeq(IdChars[v], LAMBDA c : c # "_")
    IN  Len(stripped) > 0 /\ \A i \in 1..Len(stripped) : stripped[i] \in {"a", "1"}

valid_agents ==
    {"ProspectSearchAgent", "DataEnrichmentAgent", "ScoringAgent",
     "OutreachContentAgent", "OutreachExecutorAgent", "ResponseTrackerAgent",
     "FeedbackTrainerAgent"}

\* WorkflowStep.validate_agent: an unknown agent is logged, never rejected
validate_agent(v) == [ok |-> TRUE, warned |-> v \notin valid_agents]

\* WorkflowDefinition.validate_steps
validate_steps(v) ==
    LET step_ids == [i \in 1..Len(v) |-> v[i].id]
        count(sid) == Cardinality({i \in 1..Len(v) : step_ids[i] = sid})
        duplicates == SelectSeq(step_ids, LAMBDA sid : count(sid) > 1)
    IN  IF Len(v) = 0
        THEN Raise("ValueError", <<"Workflow must have at least one step">>)
        ELSE IF Len(v) # Cardinality({step_ids[i] : i \in 1..Len(v)})
        THEN Raise("ValueError", <<"Duplicate step IDs found:">> \o duplicates)
        ELSE Ok(v)

\* WorkflowValidator.validate: WorkflowDefinition(**workflow_data).  The
\* validators of the steps run first and their errors are collected; the
\* validator of the `steps` field runs only when every step was built.
\* The message of the ValidationError is e.errors(): one entry per failed
\* location, (steps, i, id) or (steps).
validate(steps) ==
    LET bad == {i \in 1..Len(steps) : ~validate_id(steps[i].id)}
        idErrors == {[field |-> "id", index |-> i,
                      msg |-> <<"Step ID must be alphanumeric with underscores:",
                                steps[i].id>>] : i \in bad}
    IN  IF bad # {}
        THEN [raised |-> TRUE,
              exc |-> [type |-> "ValidationError", msg |-> idErrors]]
        ELSE LET r == validate_steps(steps)
             IN  IF r.raised
                 THEN [raised |-> TRUE,
                       exc |-> [type |-> "ValidationError",
                                msg |-> {[field |-> "steps", index |-> 0,
                                          msg |-> r.exc.msg]}]]
                 ELSE Ok(steps)

\* insertion order of the keys of the input mappings
KeyOrder == <<"limit", "leads", "cfg", "filters">>

OrderedKeys(d) == SelectSeq(KeyOrder, LAMBDA k : k \in DOMAIN d)

\* value.split("{{")[1].split(".")[0]
ref_step_id(s) == Split(Split(s, "{{")[2], ".")[1]

\* WorkflowValidator.validate_dependencies: only the top-level string values
\* of step.inputs are examined, and only the text after the first "{{"
validate_dependencies(steps) ==
    LET step_ids == {<<steps[i].id>> : i \in 1..Len(steps)}
        dangling(i, k) ==
            /\ IsReference(steps[i].inputs[k])
            /\ ref_step_id(steps[i].inputs[k].s) # <<"config">>
            /\ ref_step_id(steps[i].inputs[k].s) \notin step_ids
        badKeys(i) == SelectSeq(OrderedKeys(steps[i].inputs),
                                LAMBDA k : dangling(i, k))
        badSteps == {i \in 1..Len(steps) : Len(badKeys(i)) > 0}
    IN  IF badSteps = {} THEN [ok |-> TRUE]
        ELSE LET i == Min(badSteps)
             IN  [ok |-> FALSE, step |-> steps[i].id,
                  ref |-> ref_step_id(steps[i].inputs[badKeys(i)[1]].s)]

\* validate_workflow_file: validate() raises or passes; the value returned
\* by validate_dependencies() is dropped; get_workflow() returns the definition
validate_workflow_file(steps) ==
    IF validate(steps).raised
    THEN [raised |-> TRUE, exc |-> validate(steps).exc, deps |-> [ok |-> TRUE]]
    ELSE [raised |-> FALSE, value |-> steps, deps |-> validate_dependencies(steps)]

(************************** agents/base_agent.py ****************************)
\* what one call finds the agent's own _validate_input and _execute doing,
\* and the time.time() difference dt the call measures
Behaviours ==
    <<[validate |-> "true", run |-> "return", dt |-> 1,
       output |-> Dict([leads |-> Str(<<"L1">>)])],
      [validate |-> "true", run |-> "return", dt |-> 2,
       output |-> Dict([leads |-> Str(<<"L2">>)])],
      [validate |-> "false", dt |-> 1],
      [validate |-> "true", run |-> "raise", dt |-> 1,
       exc |-> [type |-> "RuntimeError", msg |-> <<"boom">>]],
      [validate |-> "raise", dt |-> 1,
       exc |-> [type |-> "KeyError", msg |-> <<"leads">>]],
      [validate |-> "true", run |-> "return", dt |-> 1, output |-> None]>>

\* the except branch with the success flag of the try branch
failure_result_marked_ok(agent_name, agent_id, e, dt, now) ==
    Dict([error |-> Str(e.msg),
          error_type |-> Str(<<e.type>>),
          _metadata |-> Dict([agent_name |-> Str(<<agent_name>>),
                              agent_id |-> Str(<<agent_id>>),
                              execution_time |-> Num(dt),
                              timestamp |-> Num(now),
                              success |-> Bool(TRUE),
                              error_message |-> Str(e.msg)])])

\* the dict returned by the `except Exception` branch of BaseAgent.execute
failure_result(agent_name, agent_id, e, dt, now) ==
    Dict([error |-> Str(e.msg),
          error_type |-> Str(<<e.type>>),
          _metadata |-> Dict([agent_name |-> Str(<<agent_name>>),
                              agent_id |-> Str(<<agent_id>>),
                              execution_time |-> Num(dt),
                              timestamp |-> Num(now),
                              success |-> Bool(FALSE),
                              error_message |-> Str(e.msg)])])

\* execute with _validate_input called ahead of the try block
execute_unguarded(agent_name, agent_id, input_data, beh, now) ==
    IF input_data.t # "dict"
    THEN Raise("AttributeError", <<"object has no attribute 'keys'">>)
    ELSE IF beh.validate = "raise" THEN Raise(beh.exc.type, beh.exc.msg)
    ELSE IF beh.validate = "false"
    THEN Ok(failure_result(agent_name, agent_id,
                [type |-> "ValueError",
                 msg |-> <<"Input validation failed for", agent_name>>],
                beh.dt, now))
    ELSE IF beh.run = "raise"
    THEN Ok(failure_result(agent_name, agent_id, beh.exc, beh.dt, now))
    ELSE IF beh.output.t # "dict"
    THEN Ok(failure_result(agent_name, agent_id,
                [type |-> "TypeError",
                 msg |-> <<"object does not support item assignment">>],
                beh.dt, now))
    ELSE Ok(Dict(("_metadata" :>
                    Dict([agent_name |-> Str(<<agent_name>>),
                          agent_id |-> Str(<<agent_id>>),
                          execution_time |-> Num(beh.dt),
                          timestamp |-> Num(now),
                          success |-> Bool(TRUE)]))
                 @@ beh.output.d))

\* BaseAgent.execute.  log_agent_start reads input_data.keys() before the
\* try block is entered; everything after it is inside the try block.
execute(agent_name, agent_id, input_data, beh, now) ==
    IF input_data.t # "dict"
    THEN Raise("AttributeError", <<"object has no attribute 'keys'">>)
    ELSE IF beh.validate = "raise"
    THEN Ok(failure_result(agent_name, agent_id, beh.exc, beh.dt, now))
    ELSE IF beh.validate = "false"
    THEN Ok(failure_result(agent_name, agent_id,
                [type |-> "ValueError",
                 msg |-> <<"Input validation failed for", agent_name>>],
                beh.dt, now))
    ELSE IF beh.run = "raise"
    THEN Ok(failure_result(agent_name, agent_id, beh.exc, beh.dt, now))
    ELSE IF beh.output.t # "dict"
    THEN Ok(failure_result(agent_name, agent_id,
                [type |-> "TypeError",
                 msg |-> <<"object does not support item assignment">>],
                beh.dt, now))
    ELSE Ok(Dict(("_metadata" :>
                    Dict([agent_name |-> Str(<<agent_name>>),
                          agent_id |-> Str(<<agent_id>>),
                          execution_time |-> Num(beh.dt),
                          timestamp |-> Num(now),
                          success |-> Bool(TRUE)]))
                 @@ beh.output.d))

\* _execute called whatever _validate_input returned
execute_reached_eagerly(input_data, beh) ==
    input_data.t = "dict" /\ beh.validate # "raise"

\* whether the call reaches line 76, output_data = self._execute(input_data):
\* only past the `if not self._validate_input(input_data): raise` of line 72
execute_reached(input_data, beh) ==
    input_data.t = "dict" /\ beh.validate = "true"

(*************************** langgraph_builder.py **************************)
\* LangGraphWorkflowBuilder._initialize_agents: agent name -> agent_id
agents ==
    [ProspectSearchAgent |-> "graph_prospect_search",
     DataEnrichmentAgent |-> "graph_enrichment",
     ScoringAgent |-> "graph_scoring",
     OutreachContentAgent |-> "graph_content",
     OutreachExecutorAgent |-> "graph_executor",
     ResponseTrackerAgent |-> "graph_tracker",
     FeedbackTrainerAgent |-> "graph_feedback"]

\* ConfigLoader.get_scoring_config / get_icp_config (defaults, in tenths)
ScoringConfig ==
    Dict([weights |-> Dict([industry_match |-> Num(3), company_size |-> Num(2)]),
          min_score_threshold |-> Num(6)])

IcpConfig == Dict([industry |-> List(<<Str(<<"SaaS">>)>>)])

\* dict.get(part)
DictGet(d, part) ==
    IF Len(part) = 1 /\ part[1] \in DOMAIN d THEN d[part[1]] ELSE None

\* the loop of _get_nested_value over parts[i..]
RECURSIVE Navigate(_, _, _)
Navigate(value, parts, i) ==
    IF i > Len(parts) THEN value
    ELSE IF value.t # "dict" THEN None
    ELSE IF parts[i] = <<"output">> THEN Navigate(value, parts, i + 1)
    ELSE IF DictGet(value.d, parts[i]) = None THEN None
    ELSE Navigate(DictGet(value.d, parts[i]), parts, i + 1)

\* _get_nested_value after parts = path.split('.')
get_nested_parts(parts, st) ==
    IF parts[1] = <<"config">>
    THEN IF Len(parts) < 2
         THEN Raise("IndexError", <<"list index out of range">>)
         ELSE IF parts[2] = <<"scoring">> THEN Ok(ScoringConfig)
         ELSE IF parts[2] = <<"icp">> THEN Ok(IcpConfig)
         ELSE Ok(None)
    ELSE Ok(Navigate(Dict(st), parts, 1))

\* LangGraphWorkflowBuilder._get_nested_value
get_nested_value(path, st) == get_nested_parts(Split(path, "."), st)

\* LangGraphWorkflowBuilder._resolve_input_references: the dict as a whole,
\* one value of it (the if/elif chain of the loop body), one item of a list
RECURSIVE resolve_input_references(_, _)
RECURSIVE resolve_value(_, _)

\* a resolved nested mapping, as the value it is stored as
AsDict(r) == IF r.raised THEN r ELSE Ok(Dict(r.value))

\* resolved[key] for a string that holds "{{" and "}}", m its re.search
resolve_match(m, v, st) ==
    IF m.matched THEN get_nested_value(m.group, st) ELSE Ok(v)

\* the list comprehension, rs the items in order
resolve_list(rs) ==
    IF \E i \in DOMAIN rs : rs[i].raised
    THEN rs[Min({i \in DOMAIN rs : rs[i].raised})]
    ELSE Ok(List([i \in DOMAIN rs |-> rs[i].value]))

resolve_item(x, st) ==
    IF x.t = "dict" THEN AsDict(resolve_input_references(x.d, st)) ELSE Ok(x)

resolve_value(v, st) ==
    IF IsReference(v) THEN resolve_match(RegexSearch(v.s), v, st)
    ELSE IF v.t = "dict" THEN AsDict(resolve_input_references(v.d, st))
    ELSE IF v.t = "list"
    THEN resolve_list([i \in 1..Len(v.l) |-> resolve_item(v.l[i], st)])
    ELSE Ok(v)

\* the dict `resolved`, res the outcome of every key; the first key that
\* raises ends the loop
resolved_dict(inputs, res) ==
    IF \E k \in DOMAIN inputs : res[k].raised
    THEN res[SelectSeq(OrderedKeys(inputs), LAMBDA k : res[k].raised)[1]]
    ELSE Ok([k \in DOMAIN inputs |-> res[k].value])

resolve_input_references(inputs, st) ==
    resolved_dict(inputs, [k \in DOMAIN inputs |-> resolve_value(inputs[k], st)])

\* the keys of WorkflowState: the channels of StateGraph(WorkflowState)
SchemaKeys ==
    {"workflow_name", "execution_id", "prospect_search", "enrichment",
     "scoring", "outreach_content", "send", "response_tracking",
     "feedback_trainer", "current_step", "completed_steps", "errors",
     "start_time", "end_time"}

\* the keys annotated Annotated[List[...], operator.add]
ReducerKeys == {"completed_steps", "errors"}

\* output.get('_metadata', {}).get('success', True)
SuccessFlag(output) ==
    LET md == IF "_metadata" \in DOMAIN output.d
              THEN output.d["_metadata"] ELSE EmptyDict
        flag == IF "success" \in DOMAIN md.d THEN md.d["success"] ELSE Bool(TRUE)
    IN  flag.t = "bool" /\ flag.b

\* BaseAgent.__init__: the agent metadata
new_stats == [execution_count |-> 0, total_execution_time |-> 0,
              last_execution_time |-> None]

\* BaseAgent.execute counting every call, the failed ones too
stats_after_counting_all(s, out) ==
    IF ~out.raised /\ SuccessFlag(out.value)
    THEN [execution_count |-> s.execution_count + 1,
          total_execution_time |->
              s.total_execution_time + out.value.d["_metadata"].d["execution_time"].n,
          last_execution_time |-> out.value.d["_metadata"].d["execution_time"]]
    ELSE [s EXCEPT !.execution_count = @ + 1]

\* BaseAgent.execute, lines 88-91: the counters after a call that gave `out`;
\* they are reached only on the path that returns output_data
stats_after(s, out) ==
    IF ~out.raised /\ SuccessFlag(out.value)
    THEN [execution_count |-> s.execution_count + 1,
          total_execution_time |->
              s.total_execution_time + out.value.d["_metadata"].d["execution_time"].n,
          last_execution_time |-> out.value.d["_metadata"].d["execution_time"]]
    ELSE s

\* BaseAgent.get_stats on an instance whose counters are s; the average is
\* the quotient total / count, kept as the pair of its terms
get_stats(name, s) ==
    [agent_name |-> name,
     execution_count |-> s.execution_count,
     total_execution_time |-> s.total_execution_time,
     average_execution_time |->
         IF s.execution_count > 0
         THEN [num |-> s.total_execution_time, den |-> s.execution_count]
         ELSE [num |-> 0, den |-> 1],
     last_execution_time |-> s.last_execution_time]

\* the number of calls that returned the success path's output_data, after a
\* call that gave `out`
returned_after(n, out) ==
    IF ~out.raised /\ SuccessFlag(out.value) THEN n + 1 ELSE n

returned_after_calls(rt, cs) ==
    [a \in DOMAIN rt |->
        IF Len(cs) = 1 /\ cs[1].agent = a THEN returned_after(rt[a], cs[1].out)
        ELSE rt[a]]

\* the counters of every agent after the calls of one node
stats_after_calls(st, cs) ==
    [a \in DOMAIN st |->
        IF Len(cs) = 1 /\ cs[1].agent = a THEN stats_after(st[a], cs[1].out)
        ELSE st[a]]

\* the dict appended to state["errors"]
ErrorRecord(step_id, msg, now) ==
    Dict([step |-> Str(<<step_id>>), error |-> Str(msg), timestamp |-> Num(now)])

\* state["errors"].append({...})
appended(st, step_id, msg, now) ==
    List(Append(st["errors"].l, ErrorRecord(step_id, msg, now)))

\* what a run of node_function leaves: ret is the dict it returns, errorsObj
\* the list object st["errors"] after the in-place appends, call the
\* agent.execute call it made
Returned(st, errs, call) ==
    [raised |-> FALSE, ret |-> [st EXCEPT !["errors"] = errs],
     errorsObj |-> errs, call |-> call]

\* the result slots of WorkflowState
StepSlots ==
    {"prospect_search", "enrichment", "scoring", "outreach_content", "send",
     "response_tracking", "feedback_trainer"}

\* store_output returning a dict in which only the step's own slot is kept
store_output_clearing(step_id, st, output, errs, call) ==
    [raised |-> FALSE,
     ret |-> ("completed_steps" :> List(<<Str(<<step_id>>)>>))
             @@ ("current_step" :> Str(<<step_id>>))
             @@ (step_id :> output)
             @@ [k \in DOMAIN st |->
                    IF k \in StepSlots THEN EmptyDict
                    ELSE IF k = "errors" THEN errs ELSE st[k]],
     errorsObj |-> errs, call |-> call]

\* lines 156-172: output is what agent.execute returned, errs the list
\* object st["errors"] after the `if not success` branch
store_output(step_id, st, output, errs, call) ==
    [raised |-> FALSE,
     ret |-> ("completed_steps" :> List(<<Str(<<step_id>>)>>))
             @@ ("current_step" :> Str(<<step_id>>))
             @@ (step_id :> output)
             @@ [st EXCEPT !["errors"] = errs],
     errorsObj |-> errs, call |-> call]

\* output.get('error', 'Unknown error')
error_msg(output) ==
    IF "error" \in DOMAIN output.d THEN output.d["error"].s ELSE <<"Unknown error">>

\* the try block after agent.execute returned or raised `out`
after_execute(step_id, st, out, call, now) ==
    IF out.raised
    THEN Returned(st, appended(st, step_id,
                      <<"Exception during execution:">> \o out.exc.msg, now), call)
    ELSE IF out.value.t # "dict"
    THEN Returned(st, appended(st, step_id,
                      <<"Exception during execution:">>
                      \o <<"object has no attribute 'get'">>, now), call)
    ELSE IF ~SuccessFlag(out.value)
    THEN store_output(step_id, st, out.value,
                      appended(st, step_id, error_msg(out.value), now), call)
    ELSE store_output(step_id, st, out.value, st["errors"], call)

\* node_function from line 148 on, r the outcome of _resolve_input_references
after_resolve(step, st, beh, now, r) ==
    IF r.raised THEN [raised |-> TRUE, exc |-> r.exc, call |-> <<>>]
    ELSE after_execute(step.id, st,
             execute(step.agent, agents[step.agent], Dict(r.value), beh, now),
             <<[step |-> step.id, agent |-> step.agent, input |-> Dict(r.value),
                out |-> execute(step.agent, agents[step.agent], Dict(r.value),
                                beh, now)]>>,
             now)

\* node_function with self.agents[agent_name] in place of self.agents.get
node_function_strict(step, st, beh, now) ==
    IF step.agent \notin DOMAIN agents
    THEN [raised |-> TRUE, exc |-> [type |-> "KeyError", msg |-> <<step.agent>>],
          call |-> <<>>]
    ELSE after_resolve(step, st, beh, now,
                       resolve_input_references(step.inputs, st))

\* node_function of _create_node_function, on the dict `st` the graph hands it
node_function(step, st, beh, now) ==
    IF step.agent \notin DOMAIN agents
    THEN Returned(st, appended(st, step.id,
                      <<"Agent", step.agent, "not found">>, now), <<>>)
    ELSE after_resolve(step, st, beh, now,
                       resolve_input_references(step.inputs, st))

\* apply_writes with the two lists replaced like every other key
apply_writes_overwrite(chan, ret, errorsNow) ==
    IF \E k \in ReducerKeys \cap DOMAIN ret : ret[k].t # "list"
    THEN Raise("TypeError", <<"can only concatenate list to list">>)
    ELSE Ok([k \in DOMAIN chan |-> IF k \notin DOMAIN ret THEN chan[k] ELSE ret[k]])

\* how the compiled graph folds the dict a node returns into its channels:
\* keys outside WorkflowState are dropped, the two annotated lists are
\* combined with operator.add(current, update), every other key is replaced.
\* errorsNow is the channel's current list: the object the node appended to
\* when the node was handed that object, else the list as it was.
apply_writes(chan, ret, errorsNow) ==
    LET cur(k) == IF k = "errors" THEN errorsNow ELSE chan[k]
        bad == {k \in ReducerKeys \cap DOMAIN ret : ret[k].t # "list"}
    IN  IF bad # {}
        THEN Raise("TypeError", <<"can only concatenate list to list">>)
        ELSE Ok([k \in DOMAIN chan |->
                    IF k \notin DOMAIN ret THEN chan[k]
                    ELSE IF k \in ReducerKeys
                    THEN List(cur(k).l \o ret[k].l)
                    ELSE ret[k]])

\* one superstep of graph.invoke, r what the node function did: a node that
\* raises ends invoke, else its writes are applied
superstep(chan, r, shared) ==
    IF r.raised THEN r
    ELSE [c \in {"call"} |-> r.call]
         @@ apply_writes(chan, r.ret, IF shared THEN r.errorsObj ELSE chan["errors"])

invoke_node(step, chan, beh, now, shared) ==
    superstep(chan, node_function(step, chan, beh, now), shared)

\* initial_state of execute(), as the graph's input: every key of it is a
\* key of WorkflowState
initial_state ==
    [k \in SchemaKeys |->
        CASE k = "workflow_name" -> Str(<<"wf">>)
          [] k = "execution_id" -> Str(<<"exec_0">>)
          [] k \in {"current_step", "end_time"} -> Str(<<>>)
          [] k = "start_time" -> Num(0)
          [] k \in ReducerKeys -> List(<<>>)
          [] OTHER -> EmptyDict]

\* execution_id = f"exec_{datetime.now().strftime('%Y%m%d_%H%M%S')}": the
\* id of an execute() call is the second it starts in
ExecutionIds == <<"exec_0", "exec_1", "exec_2", "exec_3">>

execution_id(clk) == ExecutionIds[clk + 1]

\* initial_state after initial_state.update(initial_input)
graph_input(clk, input) ==
    input @@ [initial_state EXCEPT !["execution_id"] = Str(<<execution_id(clk)>>),
                                   !["start_time"] = Num(clk)]

\* the channels when graph.invoke(input, config) starts on `thread`: keys
\* outside WorkflowState are dropped, and when the checkpointer already holds
\* the thread its saved channels are the ones the input is written into, so a
\* plain key takes the input and an operator.add key keeps its saved list
begin_invoke(store, thread, input) ==
    [k \in SchemaKeys |->
        IF thread \in DOMAIN store /\ k \in ReducerKeys
        THEN List(store[thread][k].l \o input[k].l)
        ELSE input[k]]

\* the checkpointer keeping the first checkpoint of a thread
put_checkpoint_once(store, thread, chan) ==
    IF thread \in DOMAIN store THEN store ELSE (thread :> chan) @@ store

\* MemorySaver.put: the latest channels of the thread replace the saved ones
put_checkpoint(store, thread, chan) == (thread :> chan) @@ store

(****************************** the documents ******************************)
MaxSteps == 3

Ref(path) == Str(<<"{{">> \o path \o <<"}}">>)

\* the steps a document is made of
StepPool ==
    <<[id |-> "prospect_search", agent |-> "ProspectSearchAgent",
       inputs |-> [limit |-> Num(5)]],
      [id |-> "scoring", agent |-> "ScoringAgent",
       inputs |-> [leads |-> Ref(<<"prospect_search", ".", "output", ".", "leads">>),
                   cfg |-> Ref(<<"config", ".", "scoring">>)]],
      [id |-> "custom", agent |-> "DataEnrichmentAgent",
       inputs |-> [leads |-> Ref(<<"prospect_search", ".", "leads">>)]],
      [id |-> "enrichment", agent |-> "GhostAgent",
       inputs |-> [leads |-> Ref(<<"scoring", ".", "output", ".", "leads">>)]],
      [id |-> "send", agent |-> "OutreachExecutorAgent",
       inputs |-> [leads |-> Ref(<<"custom", ".", "output", ".", "leads">>)]],
      [id |-> "outreach_content", agent |-> "OutreachContentAgent",
       inputs |-> [leads |-> Ref(<<"ghost", ".", "output", ".", "leads">>)]],
      [id |-> "response_tracking", agent |-> "ResponseTrackerAgent",
       inputs |-> [filters |-> Dict([leads |-> Ref(<<"ghost", ".", "leads">>)])]],
      [id |-> "bad_dash", agent |-> "ScoringAgent",
       inputs |-> [limit |-> Num(5)]],
      [id |-> "errors", agent |-> "FeedbackTrainerAgent",
       inputs |-> [limit |-> Num(5)]],
      [id |-> "feedback_trainer", agent |-> "FeedbackTrainerAgent",
       inputs |-> [filters |-> Dict([cfg |-> Ref(<<"config">>)])]]>>

Documents ==
    UNION {[1..n -> 1..Len(StepPool)] : n \in 0..MaxSteps}

(******************************** the run **********************************)
\* what the agents do inside a run: succeed with either payload, reject the
\* input, raise
NodeBehaviours == SubSeq(Behaviours, 1, 4)

Init ==
    /\ \E d \in Documents : doc = [i \in DOMAIN d |-> StepPool[d[i]]]
    /\ inPlace \in BOOLEAN
    /\ pc = "loaded"
    /\ depsOk = [ok |-> TRUE]
    /\ raised = <<>>
    /\ state = <<>>
    /\ node = 0
    /\ calls = <<>>
    /\ stats = [a \in DOMAIN agents |-> new_stats]
    /\ result = <<>>
    /\ checkpoints = <<>>
    /\ clock = 0
    /\ initial_input = <<>>
    /\ returned = [a \in DOMAIN agents |-> 0]

\* LangGraphWorkflowBuilder.__init__
Construct ==
    /\ pc = "loaded"
    /\ \E r \in {validate_workflow_file(doc)} :
           /\ depsOk' = r.deps
           /\ IF r.raised
              THEN pc' = "rejected" /\ raised' = <<r.exc>>
              ELSE pc' = "built" /\ raised' = raised
    /\ UNCHANGED <<doc, state, node, calls, inPlace, stats, result>>
    /\ UNCHANGED <<checkpoints, clock, initial_input, returned>>

\* execute(), up to graph.invoke: build_graph and the initial state
StartExecute ==
    /\ pc = "built"
    /\ pc' = "running"
    /\ \E chan \in {begin_invoke(checkpoints, execution_id(clock),
                                  graph_input(clock, initial_input))} :
           /\ state' = chan
           /\ checkpoints' = put_checkpoint(checkpoints, execution_id(clock), chan)
    /\ node' = 1
    /\ UNCHANGED <<doc, depsOk, raised, calls, inPlace, stats, result>>
    /\ UNCHANGED <<clock, initial_input, returned>>

\* one node of the chain, inside graph.invoke, the agent behaving as one of
\* behs; the checkpointer saves the channels after the node's writes
NodeStepWith(behs) ==
    /\ pc = "running"
    /\ node <= Len(doc)
    /\ \E b \in 1..Len(behs) :
         \E w \in {invoke_node(doc[node], state, behs[b], node, inPlace)} :
             /\ calls' = calls \o w.call
             /\ stats' = stats_after_calls(stats, w.call)
             /\ returned' = returned_after_calls(returned, w.call)
             /\ IF w.raised
                THEN /\ pc' = "aborted"
                     /\ raised' = <<w.exc>>
                     /\ UNCHANGED <<state, node, checkpoints>>
                ELSE /\ state' = w.value
                     /\ checkpoints' = put_checkpoint(checkpoints,
                                            state["execution_id"].s[1], w.value)
                     /\ node' = node + 1
                     /\ UNCHANGED <<pc, raised>>
    /\ UNCHANGED <<doc, depsOk, inPlace, result, clock, initial_input>>

NodeStep == NodeStepWith(NodeBehaviours)

\* execute(), after graph.invoke returned the final state
Return ==
    /\ pc = "running"
    /\ node = Len(doc) + 1
    /\ pc' = "done"
    /\ state' = [state EXCEPT !["end_time"] = Num(node)]
    /\ UNCHANGED <<doc, depsOk, raised, node, calls, inPlace, stats, result>>
    /\ UNCHANGED <<checkpoints, clock, initial_input, returned>>

Next == Construct \/ StartExecute \/ NodeStep \/ Return

Spec == Init /\ [][Next]_vars

(******************** BaseAgent.execute called directly ********************)
MaxCalls == 3

\* the input_data: Dict[str, Any] a caller hands to execute
AgentInputs ==
    <<EmptyDict,
      Dict([leads |-> List(<<Str(<<"L1">>)>>)]),
      Dict([leads |-> None]),
      Dict([enriched_leads |-> List(<<>>), cfg |-> ScoringConfig])>>

AgentInit ==
    /\ doc = <<>>
    /\ inPlace = FALSE
    /\ pc = "agent"
    /\ depsOk = [ok |-> TRUE]
    /\ raised = <<>>
    /\ state = <<>>
    /\ node = 0
    /\ calls = <<>>
    /\ stats = [a \in DOMAIN agents |-> new_stats]
    /\ result = <<>>
    /\ checkpoints = <<>>
    /\ clock = 0
    /\ initial_input = <<>>
    /\ returned = [a \in DOMAIN agents |-> 0]

\* agent.execute(input_data) on one of the agent instances
AgentCall ==
    /\ pc = "agent"
    /\ node < MaxCalls
    /\ \E a \in DOMAIN agents, i \in 1..Len(AgentInputs), b \in 1..Len(Behaviours) :
         \E out \in {execute(a, agents[a], AgentInputs[i], Behaviours[b], node + 1)} :
             /\ result' = <<[agent |-> a, input |-> AgentInputs[i],
                             beh |-> b, out |-> out,
                             ran |-> execute_reached(AgentInputs[i],
                                                     Behaviours[b])]>>
             /\ stats' = [stats EXCEPT ![a] = stats_after(@, out)]
             /\ returned' = [returned EXCEPT ![a] = returned_after(@, out)]
    /\ node' = node + 1
    /\ UNCHANGED <<doc, pc, depsOk, raised, state, calls, inPlace>>
    /\ UNCHANGED <<checkpoints, clock, initial_input>>

AgentNext == AgentCall

SpecAgent == AgentInit /\ [][AgentNext]_vars

(*************** reference resolution against a given RunState *************)
MaxResolves == 2

\* the text of a dotted path: its segments joined by "."
RECURSIVE Dotted(_)
Dotted(segs) ==
    IF Len(segs) = 0 THEN <<>>
    ELSE IF Len(segs) = 1 THEN <<segs[1]>>
    ELSE <<segs[1], ".">> \o Dotted(Tail(segs))

\* an AgentResult as a step slot holds it: a payload with a list and a
\* nested mapping, and the metadata envelope
SearchResult ==
    Dict([leads |-> List(<<Str(<<"L1">>)>>),
          summary |-> Dict([total |-> Num(2),
                            output |-> Dict([total |-> Num(1)])]),
          _metadata |-> Dict([success |-> Bool(TRUE)])])

\* the RunStates a node can be handed: nothing executed yet, the first step
\* succeeded, the first step failed, two steps executed
RunStates ==
    {initial_state,
     [initial_state EXCEPT !["prospect_search"] = SearchResult],
     [initial_state EXCEPT !["prospect_search"] =
         failure_result("ProspectSearchAgent", "graph_prospect_search",
                        [type |-> "RuntimeError", msg |-> <<"boom">>], 1, 1)],
     [initial_state EXCEPT !["prospect_search"] = SearchResult,
                           !["scoring"] = Dict([leads |-> List(<<>>)])]}

\* the reference paths of the input mappings, as lists of segments
PathPool ==
    <<<<"prospect_search", "output", "leads">>,
      <<"prospect_search", "leads">>,
      <<"prospect_search">>,
      <<"prospect_search", "leads", "output">>,
      <<"prospect_search", "output", "summary", "output", "total">>,
      <<"prospect_search", "summary", "total">>,
      <<"prospect_search", "leads", "name">>,
      <<"prospect_search", "missing", "field">>,
      <<"scoring", "output", "leads">>,
      <<"ghost", "output", "leads">>,
      <<"config", "scoring">>,
      <<"config", "icp">>,
      <<"config", "unknown">>,
      <<"config", "scoring", "weights">>,
      <<"config">>>>

\* the input mappings of a step
MappingPool ==
    <<[leads |-> Ref(Dotted(<<"prospect_search", "output", "leads">>)),
       cfg |-> Ref(Dotted(<<"config", "scoring">>))],
      [filters |-> Dict([leads |-> Ref(Dotted(<<"scoring", "leads">>))]),
       limit |-> Num(5)],
      [filters |-> List(<<Dict([cfg |-> Ref(Dotted(<<"config", "icp">>))]),
                          Ref(Dotted(<<"prospect_search", "leads">>))>>)],
      [filters |-> Dict([cfg |-> Ref(<<"config">>)])],
      [leads |-> Str(<<"{{", "}}">>), limit |-> Num(5)]>>

\* the RunState after _resolve_input_references returned as it was altered
\* by a resolver that records the step it last resolved
state_after_resolve_recording(inputs, st) ==
    [st EXCEPT !["current_step"] = Str(<<"resolved">>)]

\* the RunState after _resolve_input_references returned: lines 187-257
\* assign to `resolved` and to locals only, never to state
state_after_resolve(inputs, st) == st

ResolveInit ==
    /\ doc = <<>>
    /\ inPlace = FALSE
    /\ pc = "resolve"
    /\ depsOk = [ok |-> TRUE]
    /\ raised = <<>>
    /\ state \in RunStates
    /\ node = 0
    /\ calls = <<>>
    /\ stats = [a \in DOMAIN agents |-> new_stats]
    /\ result = <<>>
    /\ checkpoints = <<>>
    /\ clock = 0
    /\ initial_input = <<>>
    /\ returned = [a \in DOMAIN agents |-> 0]

\* self._get_nested_value(ref_path, state)
ResolvePath ==
    /\ pc = "resolve"
    /\ node < MaxResolves
    /\ \E i \in 1..Len(PathPool) :
           result' = <<[kind |-> "path", path |-> Dotted(PathPool[i]),
                        out |-> get_nested_value(Dotted(PathPool[i]), state)]>>
    /\ node' = node + 1
    /\ UNCHANGED <<doc, pc, depsOk, raised, state, calls, inPlace, stats>>
    /\ UNCHANGED <<checkpoints, clock, initial_input, returned>>

\* self._resolve_input_references(step.inputs, state), called two times in
\* a row with the same mapping
ResolveInputs ==
    /\ pc = "resolve"
    /\ node < MaxResolves
    /\ \E i \in 1..Len(MappingPool) :
         \E after \in {state_after_resolve(MappingPool[i], state)} :
           /\ result' = <<[kind |-> "inputs", inputs |-> MappingPool[i],
                           before |-> state,
                           out |-> resolve_input_references(MappingPool[i], state),
                           after |-> after,
                           again |-> resolve_input_references(MappingPool[i], after)]>>
           /\ state' = after
    /\ node' = node + 1
    /\ UNCHANGED <<doc, pc, depsOk, raised, calls, inPlace, stats>>
    /\ UNCHANGED <<checkpoints, clock, initial_input, returned>>

ResolveNext == ResolvePath \/ ResolveInputs

SpecResolve == ResolveInit /\ [][ResolveNext]_vars

(********************** the validator called directly **********************)
MaxValSteps == 3

\* the steps of the documents handed to the validator: literals, a one-segment
\* reference, two references in one string, a reference inside a list item,
\* a reference to a step no document declares, an id with a dash
ValPool ==
    <<[id |-> "prospect_search", agent |-> "ProspectSearchAgent",
       inputs |-> [limit |-> Num(5)]],
      [id |-> "scoring", agent |-> "ScoringAgent",
       inputs |-> [leads |-> Ref(Dotted(<<"prospect_search", "output", "leads">>)),
                   cfg |-> Ref(Dotted(<<"config", "scoring">>))]],
      [id |-> "enrichment", agent |-> "DataEnrichmentAgent",
       inputs |-> [leads |-> Ref(<<"prospect_search">>)]],
      [id |-> "send", agent |-> "OutreachExecutorAgent",
       inputs |-> [leads |-> Str(Ref(Dotted(<<"prospect_search", "leads">>)).s
                                 \o <<"and">>
                                 \o Ref(Dotted(<<"ghost", "leads">>)).s)]],
      [id |-> "outreach_content", agent |-> "OutreachContentAgent",
       inputs |-> [filters |->
                      List(<<Dict([leads |-> Ref(Dotted(<<"ghost", "leads">>))])>>)]],
      [id |-> "response_tracking", agent |-> "ResponseTrackerAgent",
       inputs |-> [leads |-> Ref(Dotted(<<"ghost", "output", "leads">>))]],
      [id |-> "bad_dash", agent |-> "ScoringAgent",
       inputs |-> [limit |-> Num(5)]]>>

ValDocuments ==
    UNION {[1..n -> 1..Len(ValPool)] : n \in 0..MaxValSteps}

ValInit ==
    /\ \E d \in ValDocuments : doc = [i \in DOMAIN d |-> ValPool[d[i]]]
    /\ inPlace = FALSE
    /\ pc = "unvalidated"
    /\ depsOk = [ok |-> TRUE]
    /\ raised = <<>>
    /\ state = <<>>
    /\ node = 0
    /\ calls = <<>>
    /\ stats = [a \in DOMAIN agents |-> new_stats]
    /\ result = <<>>
    /\ checkpoints = <<>>
    /\ clock = 0
    /\ initial_input = <<>>
    /\ returned = [a \in DOMAIN agents |-> 0]

\* validator.validate(): the WorkflowDefinition, or the ValidationError
Validate ==
    /\ pc = "unvalidated"
    /\ \E r \in {validate(doc)} :
           IF r.raised
           THEN pc' = "invalid" /\ raised' = <<r.exc>> /\ result' = result
           ELSE pc' = "valid" /\ raised' = raised
                /\ result' = <<[steps |-> r.value]>>
    /\ UNCHANGED <<doc, depsOk, state, node, calls, inPlace, stats>>
    /\ UNCHANGED <<checkpoints, clock, initial_input, returned>>

\* validator.validate_dependencies() on the validated definition
CheckDependencies ==
    /\ pc = "valid"
    /\ depsOk' = validate_dependencies(result[1].steps)
    /\ pc' = "checked"
    /\ UNCHANGED <<doc, raised, state, node, calls, inPlace, stats, result>>
    /\ UNCHANGED <<checkpoints, clock, initial_input, returned>>

ValNext == Validate \/ CheckDependencies

SpecValidate == ValInit /\ [][ValNext]_vars

(************** run_workflow and repeated execute() calls ******************)
MaxRuns == 2

MaxRunSteps == 2

\* run_workflow: initial_input = {} and, when max_leads is given,
\* initial_input["config_overrides"] = {"max_leads": max_leads}; 0 stands
\* for max_leads = None
run_workflow(max_leads) ==
    IF max_leads = 0 THEN <<>>
    ELSE [config_overrides |-> Dict([max_leads |-> Num(max_leads)])]

\* the steps of the workflows that are run repeatedly
RunPool ==
    <<[id |-> "prospect_search", agent |-> "ProspectSearchAgent",
       inputs |-> [limit |-> Ref(Dotted(<<"config_overrides", "max_leads">>))]],
      [id |-> "scoring", agent |-> "ScoringAgent",
       inputs |-> [leads |-> Ref(Dotted(<<"prospect_search", "output", "leads">>))]],
      [id |-> "enrichment", agent |-> "GhostAgent",
       inputs |-> [limit |-> Num(5)]]>>

RunDocuments ==
    UNION {[1..n -> 1..Len(RunPool)] : n \in 1..MaxRunSteps}

\* what the agents do inside these runs: succeed, raise
RunBehaviours == <<Behaviours[1], Behaviours[4]>>

RunsInit ==
    /\ \E d \in RunDocuments : doc = [i \in DOMAIN d |-> RunPool[d[i]]]
    /\ inPlace \in BOOLEAN
    /\ \E k \in {0, 10, 20} : initial_input = run_workflow(k)
    /\ returned = [a \in DOMAIN agents |-> 0]
    /\ pc = "loaded"
    /\ depsOk = [ok |-> TRUE]
    /\ raised = <<>>
    /\ state = <<>>
    /\ node = 0
    /\ calls = <<>>
    /\ stats = [a \in DOMAIN agents |-> new_stats]
    /\ result = <<>>
    /\ checkpoints = <<>>
    /\ clock = 0

RunNodeStep == NodeStepWith(RunBehaviours)

\* execute() called again on the same builder, in the same second as the
\* call before it or in a later one; result keeps what the earlier calls
\* left, calls are those of the call in progress
ExecuteAgain ==
    /\ pc \in {"done", "aborted"}
    /\ Len(result) < MaxRuns - 1
    /\ pc' = "running"
    /\ \E dt \in {0, 1} :
         /\ clock' = clock + dt
         /\ \E chan \in {begin_invoke(checkpoints, execution_id(clock + dt),
                                       graph_input(clock + dt, initial_input))} :
                /\ state' = chan
                /\ checkpoints' = put_checkpoint(checkpoints,
                                                 execution_id(clock + dt), chan)
    /\ node' = 1
    /\ calls' = <<>>
    /\ raised' = <<>>
    /\ result' = Append(result, [pc |-> pc, state |-> state])
    /\ UNCHANGED <<doc, depsOk, inPlace, stats, initial_input, returned>>

RunsNext == Construct \/ StartExecute \/ RunNodeStep \/ Return \/ ExecuteAgain

SpecRuns == RunsInit /\ [][RunsNext]_vars

(*************** the API clients' _make_request_with_retry *****************)
\* self.max_retries of ApolloAPI, ClayAPI and ClearbitAPI
max_retries == 3

\* the clients and the HTTP methods their callers pass
ClientCalls ==
    {<<"ApolloAPI", "POST">>, <<"ApolloAPI", "GET">>, <<"ClayAPI", "POST">>,
     <<"ClearbitAPI", "GET">>}

\* what one requests.request call can do: answer with a status code, or raise
\* (no connection, no answer within self.timeout, or an exception that is
\* not a RequestException)
Outcomes ==
    {[kind |-> "response", status |-> 200],
     [kind |-> "response", status |-> 404],
     [kind |-> "response", status |-> 500],
     [kind |-> "raise", type |-> "ConnectionError"],
     [kind |-> "raise", type |-> "Timeout"],
     [kind |-> "raise", type |-> "TypeError"]}

\* the classes `except requests.exceptions.RequestException` catches
RequestExceptions == {"HTTPError", "ConnectionError", "Timeout"}

\* requests.request(...) followed by response.raise_for_status(), in attempt
\* number `attempt` (from 0) with the outcome o
request(attempt, o) ==
    IF o.kind = "raise" THEN Raise(o.type, <<"attempt", attempt>>)
    ELSE IF o.status >= 400 THEN Raise("HTTPError", <<"attempt", attempt, o.status>>)
    ELSE Ok([status |-> o.status, attempt |-> attempt])

\* the loop body with the final RequestException swallowed: the loop ends
\* and the function returns None
after_attempt_swallowing(attempt, r) ==
    IF ~r.raised THEN [pc |-> "returned", result |-> <<r.value>>, raised |-> <<>>]
    ELSE IF r.exc.type \notin RequestExceptions
    THEN [pc |-> "raised", result |-> <<>>, raised |-> <<r.exc>>]
    ELSE IF attempt = max_retries - 1
    THEN [pc |-> "returned", result |-> <<None>>, raised |-> <<>>]
    ELSE [pc |-> "sleeping", result |-> <<>>, raised |-> <<>>]

\* the loop body after the request of attempt `attempt` did r: return the
\* response, let a foreign exception through, re-raise on the last attempt,
\* or go on to time.sleep
after_attempt(attempt, r) ==
    IF ~r.raised THEN [pc |-> "returned", result |-> <<r.value>>, raised |-> <<>>]
    ELSE IF r.exc.type \notin RequestExceptions
    THEN [pc |-> "raised", result |-> <<>>, raised |-> <<r.exc>>]
    ELSE IF attempt = max_retries - 1
    THEN [pc |-> "raised", result |-> <<>>, raised |-> <<r.exc>>]
    ELSE [pc |-> "sleeping", result |-> <<>>, raised |-> <<>>]

\* wait_time = 2 ** attempt
wait_time(attempt) == 2 ^ attempt

\* a client about to enter the loop, attempt = 0; clock counts the seconds
\* slept
RetryInit ==
    /\ doc = <<>>
    /\ inPlace = FALSE
    /\ pc = "request"
    /\ depsOk = [ok |-> TRUE]
    /\ raised = <<>>
    /\ \E c \in ClientCalls : state = [client |-> c[1], method |-> c[2]]
    /\ node = 0
    /\ calls = <<>>
    /\ stats = [a \in DOMAIN agents |-> new_stats]
    /\ result = <<>>
    /\ checkpoints = <<>>
    /\ clock = 0
    /\ initial_input = <<>>
    /\ returned = [a \in DOMAIN agents |-> 0]

\* one iteration of `for attempt in range(self.max_retries)` up to its
\* return, raise or the call of time.sleep; node is `attempt`
Attempt ==
    /\ pc = "request"
    /\ node < max_retries
    /\ \E o \in Outcomes :
         \E r \in {request(node, o)} :
             /\ calls' = Append(calls, [method |-> state.method, out |-> r])
             /\ pc' = after_attempt(node, r).pc
             /\ result' = after_attempt(node, r).result
             /\ raised' = after_attempt(node, r).raised
    /\ UNCHANGED <<doc, depsOk, state, node, inPlace, stats>>
    /\ UNCHANGED <<checkpoints, clock, initial_input, returned>>

\* time.sleep(wait_time), then the next iteration
Sleep ==
    /\ pc = "sleeping"
    /\ clock' = clock + wait_time(node)
    /\ node' = node + 1
    /\ pc' = "request"
    /\ UNCHANGED <<doc, depsOk, raised, state, calls, inPlace, stats, result>>
    /\ UNCHANGED <<checkpoints, initial_input, returned>>

RetryNext == Attempt \/ Sleep

SpecRetry == RetryInit /\ [][RetryNext]_vars

(******************************* the claims ********************************)
Started == pc \in {"running", "done", "aborted"}
Errors == state["errors"].l
Completed == state["completed_steps"].l
Succeeded(out) == ~out.raised /\ SuccessFlag(out.value)

\* the agent.execute calls of the run made for step i
CallsOf(i) == {j \in 1..Len(calls) : calls[j].step = doc[i].id}
StepSucceeded(i) == \E j \in CallsOf(i) : Succeeded(calls[j].out)
CountErrors(id) ==
    Cardinality({j \in 1..Len(Errors) : Errors[j].d["step"] = Str(<<id>>)})

\* the reference paths of an input mapping, at any depth, as the resolver
\* reads them
RECURSIVE RefsOf(_)
RefsOf(v) ==
    IF IsReference(v)
    THEN IF RegexSearch(v.s).matched THEN {RegexSearch(v.s).group} ELSE {}
    ELSE IF v.t = "dict" THEN UNION {RefsOf(v.d[k]) : k \in DOMAIN v.d}
    ELSE IF v.t = "list"
    THEN UNION {IF v.l[i].t = "dict" THEN RefsOf(v.l[i]) ELSE {} : i \in 1..Len(v.l)}
    ELSE {}

\* the step ids step i refers to
StepRoots(i) ==
    {Split(p, ".")[1] : p \in RefsOf(Dict(doc[i].inputs))} \ {<<"config">>}

DeclaredIds == {<<doc[i].id>> : i \in 1..Len(doc)}
DanglingRoots(i) == StepRoots(i) \ DeclaredIds
HasDangling == \E i \in 1..Len(doc) : DanglingRoots(i) # {}

\* validate passed, validate_dependencies returned True and no reference of
\* the document is dangling
Accepted == pc \notin {"loaded", "rejected"} /\ depsOk.ok /\ ~HasDangling

\* C1: for a workflow accepted by validation, execute() runs every node and
\* returns the final RunState to its caller; no outcome of a step makes it
\* raise
C1_ExecuteReturns == Accepted => pc # "aborted"

\* C2: in the final RunState every failed step has exactly one ErrorRecord
\* naming it and every step that succeeded has none
C2_OneRecordPerFailedStep ==
    pc = "done" =>
        \A i \in 1..Len(doc) :
            CountErrors(doc[i].id) = IF StepSucceeded(i) THEN 0 ELSE 1

\* C3: a step id is in the completed list only if its AgentResult indicates
\* success; a failed AgentResult gets an ErrorRecord with its error message
C3_CompletedOnlyOnSuccess ==
    Started =>
        /\ \A i \in 1..Len(doc) :
               (\E j \in 1..Len(Completed) : Completed[j] = Str(<<doc[i].id>>))
                   => StepSucceeded(i)
        /\ \A i \in 1..Len(doc) : \A j \in CallsOf(i) :
               (i < node /\ ~Succeeded(calls[j].out)) =>
                   \E e \in 1..Len(Errors) :
                       /\ Errors[e].d["step"] = Str(<<doc[i].id>>)
                       /\ Errors[e].d["error"] = calls[j].out.value.d["error"]

\* C4: a fault raised while a node resolves its input mapping is caught in
\* that node; it never leaves execute()
C4_ResolveFaultCaught ==
    ~(pc = "aborted" /\ resolve_input_references(doc[node].inputs, state).raised)

NotFoundRecord(i) ==
    ErrorRecord(doc[i].id, <<"Agent", doc[i].agent, "not found">>, i)

C6_AgentNotFound ==
    /\ [](pc = "rejected" =>
            \/ Len(doc) = 0
            \/ \E i \in 1..Len(doc) : ~validate_id(doc[i].id)
            \/ \E i, j \in 1..Len(doc) : i # j /\ doc[i].id = doc[j].id)
    /\ [](pc = "done" =>
            \A i \in 1..Len(doc) :
                doc[i].agent \notin DOMAIN agents =>
                    /\ \E e \in 1..Len(Errors) : Errors[e] = NotFoundRecord(i)
                    /\ CallsOf(i) = {})
    /\ [][(pc = "running" /\ node <= Len(doc)
              /\ doc[node].agent \notin DOMAIN agents) =>
            /\ pc' = "running"
            /\ node' = node + 1
            /\ calls' = calls
            /\ stats' = stats
            /\ Len(state'["errors"].l) > Len(Errors)
            /\ state'["errors"].l[Len(state'["errors"].l)] = NotFoundRecord(node)
            /\ doc[node].id \in DOMAIN state \ ReducerKeys =>
                   state'[doc[node].id] = state[doc[node].id]]_vars

C6_Witness ==
    /\ pc = "done"
    /\ Len(doc) >= 2
    /\ doc[1].agent \notin DOMAIN agents
    /\ state[doc[1].id] = EmptyDict
    /\ \E e \in 1..Len(Errors) : Errors[e] = NotFoundRecord(1)
    /\ \E j \in 1..Len(calls) : calls[j].step = doc[2].id

\* C7: validate_workflow_file returns no WorkflowDefinition with a dangling
\* reference: no builder is constructed for one and none of its steps runs
C7_NoDanglingAccepted ==
    pc \in {"built", "running", "done", "aborted"} => ~HasDangling

\* C8: when a step's input mapping references a step id that is not in the
\* document, validate_dependencies fails and names that step and reference
C8_DanglingReported ==
    (pc \notin {"loaded", "rejected"} /\ HasDangling) =>
        /\ ~depsOk.ok
        /\ \E i \in 1..Len(doc) :
               depsOk.step = doc[i].id /\ depsOk.ref \in DanglingRoots(i)

\* C9: in a run of a workflow accepted by validation, when a node starts,
\* every step its input mapping references has already executed and written
\* its RunState slot
C9_DependenciesRanFirst ==
    (Accepted /\ pc = "running" /\ node <= Len(doc)) =>
        \A r \in StepRoots(node) :
            \E j \in 1..(node - 1) :
                /\ <<doc[j].id>> = r
                /\ doc[j].id \in DOMAIN state
                /\ state[doc[j].id] # EmptyDict

\* the RunState a step should read: the result of every step before it
Upstream(i) ==
    [id \in {doc[j].id : j \in 1..(i - 1)} |->
        calls[CHOOSE c \in 1..Len(calls) : calls[c].step = id].out.value]

AllSucceeded ==
    /\ Len(calls) = Len(doc)
    /\ \A i \in 1..Len(doc) : StepSucceeded(i)

\* C10: when every step's agent succeeds, each agent received the values its
\* references name in the upstream results, every step's slot holds a result
\* marked successful, the completed list is the step ids in declared order
\* and the error list is empty (stated for the workflows without a dangling
\* reference)
C10_AllSuccessRun ==
    (Accepted /\ pc = "done" /\ AllSucceeded) =>
        /\ \A i \in 1..Len(doc) :
               calls[i].input
                   = Dict(resolve_input_references(doc[i].inputs, Upstream(i)).value)
        /\ \A i \in 1..Len(doc) :
               /\ doc[i].id \in DOMAIN state
               /\ state[doc[i].id].t = "dict"
               /\ SuccessFlag(state[doc[i].id])
        /\ Completed = [i \in 1..Len(doc) |-> Str(<<doc[i].id>>)]
        /\ Errors = <<>>

\* C11: once the node of a step whose agent is registered has run, the
\* step's RunState slot holds the AgentResult execute returned to the node,
\* successful or not, whatever id validation accepted for the step
C11_SlotHoldsResult ==
    (Accepted /\ pc \in {"running", "done"}) =>
        \A i \in 1..Min({node - 1, Len(doc)}) :
            CallsOf(i) # {} =>
                /\ doc[i].id \in DOMAIN state
                /\ \E j \in CallsOf(i) : state[doc[i].id] = calls[j].out.value

\* C12: when _validate_input returns false, execute returns a failure
\* AgentResult whose error is "Input validation failed for <agent-name>"
\* and the call never invokes _execute
C12_ValidationFailure ==
    (result # <<>> /\ Behaviours[result[1].beh].validate = "false") =>
        /\ ~result[1].out.raised
        /\ result[1].out.value.d["_metadata"].d["success"] = Bool(FALSE)
        /\ result[1].out.value.d["error"]
               = Str(<<"Input validation failed for", result[1].agent>>)
        /\ ~result[1].ran

C12_Witness ==
    /\ result # <<>>
    /\ Behaviours[result[1].beh].validate = "false"
    /\ result[1].agent = "ScoringAgent"
    /\ result[1].out.value.d["error"]
           = Str(<<"Input validation failed for", "ScoringAgent">>)

\* the keys of the metadata envelope
EnvelopeKeys ==
    {"agent_name", "agent_id", "execution_time", "timestamp", "success"}

\* validation passed and _execute returned the dict its signature declares
RanClean(beh) ==
    beh.validate = "true" /\ beh.run = "return" /\ beh.output.t = "dict"

C14_ResolutionNeverRaises ==
    (result # <<>> /\ result[1].kind = "path") => ~result[1].out.raised

StripOutput(parts) == SelectSeq(parts, LAMBDA part : part # <<"output">>)

\* C16: for a step-rooted path, resolution gives what it gives for the path
\* with the `output` segments removed, wherever they stand in the path
C16_OutputTransparent ==
    (result # <<>> /\ result[1].kind = "path"
        /\ Split(result[1].path, ".")[1] # <<"config">>) =>
        result[1].out
            = get_nested_parts(StripOutput(Split(result[1].path, ".")), state)

\* the static configuration namespaces
Namespaces == Dict([scoring |-> ScoringConfig, icp |-> IcpConfig])

\* the value reached by following parts[i..] field by field, None when a
\* field is missing
RECURSIVE Follow(_, _, _)
Follow(value, parts, i) ==
    IF i > Len(parts) THEN value
    ELSE IF value.t # "dict" \/ Len(parts[i]) # 1 THEN None
    ELSE IF parts[i][1] \notin DOMAIN value.d THEN None
    ELSE Follow(value.d[parts[i][1]], parts, i + 1)

\* C17: a `config` reference is resolved by following the rest of the path
\* inside the named namespace: config.scoring and config.icp give the
\* namespace, a deeper path gives that field, an unknown namespace gives None
C17_ConfigPathFollowed ==
    (result # <<>> /\ result[1].kind = "path"
        /\ Split(result[1].path, ".")[1] = <<"config">>
        /\ Len(Split(result[1].path, ".")) >= 2) =>
        result[1].out = Ok(Follow(Namespaces, Split(result[1].path, "."), 2))

\* every delimited expression of a string, left to right
RECURSIVE AllMatches(_)
AllMatches(s) ==
    IF ~RegexSearch(s).matched THEN {}
    ELSE {RegexSearch(s).group}
         \cup AllMatches(SubSeq(s, Min(MatchStarts(s)) + Len(RegexSearch(s).group) + 2,
                                Len(s)))

\* every reference path of a value, at any depth
RECURSIVE AllRefsOf(_)
AllRefsOf(v) ==
    IF v.t = "str" THEN AllMatches(v.s)
    ELSE IF v.t = "dict" THEN UNION {AllRefsOf(v.d[k]) : k \in DOMAIN v.d}
    ELSE IF v.t = "list" THEN UNION {AllRefsOf(v.l[i]) : i \in 1..Len(v.l)}
    ELSE {}

\* the roots of the references of step i that are neither `config` nor a
\* declared step id
UnresolvedRoots(i) ==
    {Split(p, ".")[1] : p \in AllRefsOf(Dict(doc[i].inputs))}
        \ (DeclaredIds \cup {<<"config">>})

AnyUnresolved == \E i \in 1..Len(doc) : UnresolvedRoots(i) # {}

\* C18: validate_dependencies examines every reference of every input
\* mapping, nested in a mapping or list and second or later in a string
\* included: one whose root is neither `config` nor a declared step id
\* makes the check fail
C18_EveryReferenceExamined ==
    (pc = "checked" /\ AnyUnresolved) => ~depsOk.ok

\* a document whose ids are identifiers and unique, with at least one step
WellFormed ==
    /\ Len(doc) >= 1
    /\ \A i \in 1..Len(doc) :
           \A c \in 1..Len(IdChars[doc[i].id]) :
               IdChars[doc[i].id][c] \in {"a", "1", "_"}
    /\ \A i, j \in 1..Len(doc) : doc[i].id = doc[j].id => i = j

\* C19: for a well-formed document of N steps with unique ids and no
\* dangling reference, validate and validate_dependencies succeed and the
\* WorkflowDefinition holds the N steps in document order
C19_WellFormedAccepted ==
    (WellFormed /\ ~AnyUnresolved) =>
        /\ pc # "invalid"
        /\ pc \in {"valid", "checked"} => result[1].steps = doc
        /\ pc = "checked" => depsOk.ok

\* C20: when a document has several schema violations, the validation
\* failure reports each of them: every malformed id, duplicated ids, no steps
C20_EveryViolationReported ==
    pc = "invalid" =>
        /\ \A i \in 1..Len(doc) :
               ~validate_id(doc[i].id) =>
                   \E e \in raised[1].msg : e.field = "id" /\ e.index = i
        /\ (\E i, j \in 1..Len(doc) : i # j /\ doc[i].id = doc[j].id) =>
               \E e \in raised[1].msg : e.field = "steps"
        /\ Len(doc) = 0 => \E e \in raised[1].msg : e.field = "steps"

\* C21: a document in which two steps share an id fails validation before
\* any step executes, and the reported error holds the duplicated id
C21_DuplicateIdReported ==
    (pc # "loaded" /\ \E i, j \in 1..Len(doc) : i # j /\ doc[i].id = doc[j].id) =>
        /\ pc = "rejected"
        /\ calls = <<>>
        /\ \A i, j \in 1..Len(doc) :
               (i # j /\ doc[i].id = doc[j].id) =>
                   \E e \in raised[1].msg : Contains(e.msg, doc[i].id)

\* C22: every execute() call starts from a fresh RunState: when its first
\* node is about to run, the completed list and the error list are empty
\* and every step slot is empty, whatever ran before on the builder and
\* however shortly before
C22_FreshRunState ==
    (pc = "running" /\ node = 1) =>
        /\ Completed = <<>>
        /\ Errors = <<>>
        /\ \A k \in StepSlots : state[k] = EmptyDict

\* whether the value v holds the number n at any depth
RECURSIVE Mentions(_, _)
Mentions(v, n) ==
    IF v.t = "num" THEN v.n = n
    ELSE IF v.t = "dict" THEN \E k \in DOMAIN v.d : Mentions(v.d[k], n)
    ELSE IF v.t = "list" THEN \E i \in 1..Len(v.l) : Mentions(v.l[i], n)
    ELSE FALSE

\* C26: when run_workflow is called with max_leads = k, k is part of the
\* input that the agent of the lead-producing step receives
C26_MaxLeadsReachesAgent ==
    "config_overrides" \in DOMAIN initial_input =>
        \A j \in 1..Len(calls) :
            calls[j].step = "prospect_search" =>
                Mentions(calls[j].input,
                         initial_input["config_overrides"].d["max_leads"].n)

\* the channels saved under the id of the run in progress
Saved == checkpoints[state["execution_id"].s[1]]

\* the node before `node` called its agent and the call returned
LastReturned ==
    /\ node > 1
    /\ Len(calls) > 0
    /\ calls[Len(calls)].step = doc[node - 1].id
    /\ ~calls[Len(calls)].out.raised

C24_SlotPerDeclaredStep ==
    (pc = "running" /\ node = 1) =>
        /\ \A i \in 1..Len(doc) :
               doc[i].id \in DOMAIN state /\ state[doc[i].id] = EmptyDict
        /\ Completed = <<>>
        /\ Errors = <<>>

\* C25: the node for step s changes no other step's result slot: every
\* result slot of the RunState other than the one of s is after the node
\* what it was before it, whichever path the node takes
C25_OtherSlotsUntouched ==
    [][(pc = "running" /\ node' = node + 1) =>
          \A t \in StepSlots \ {doc[node].id} : state'[t] = state[t]]_vars

C25_Witness ==
    /\ node = 3
    /\ doc[1].id \in StepSlots
    /\ doc[2].id \in StepSlots
    /\ Len(calls) = 2
    /\ ~calls[1].out.raised
    /\ state[doc[1].id] = calls[1].out.value
    /\ state[doc[2].id] # EmptyDict
    /\ Len(Errors) > 0

\* whether the sequence q holds no value twice
NoDuplicates(q) == \A i, j \in 1..Len(q) : q[i] = q[j] => i = j

\* C27: in every RunState no step id occurs more than once in the completed
\* list and no ErrorRecord occurs more than once in the error list, so the
\* completed count never exceeds the number of declared steps
C27_NoDuplicateEntries ==
    Started =>
        /\ NoDuplicates(Completed)
        /\ NoDuplicates(Errors)
        /\ Len(Completed) <= Len(doc)

\* whether the sequence p is the beginning of the sequence q
IsPrefix(p, q) == Len(p) <= Len(q) /\ SubSeq(q, 1, Len(p)) = p

\* C28: across every node transition of a run the completed list and the
\* error list before the transition are prefixes of the same lists after
\* it: entries are never removed, reordered or modified
C28_ListsAppendOnly ==
    [][(pc = "running" /\ pc' \in {"running", "aborted"}) =>
          /\ IsPrefix(Completed, Completed')
          /\ IsPrefix(Errors, Errors')]_vars

C28_Witness ==
    /\ pc = "running"
    /\ node = 4
    /\ Len(Completed) >= 2
    /\ Len(Errors) >= 1

\* the three counters get_stats reports for the agent instance a
Counters(st, a) ==
    <<get_stats(a, st[a]).execution_count,
      get_stats(a, st[a]).total_execution_time,
      get_stats(a, st[a]).last_execution_time>>

\* C29: after any sequence of execute calls on an agent instance,
\* get_stats().execution_count is the number of those calls that returned a
\* successful result: a successful call raises the count by one, a call
\* that fails validation or faults leaves the count, the total time and the
\* last time as they were, and no call touches another instance
C29_StatsCountSuccesses ==
    /\ [](\A a \in DOMAIN agents :
             get_stats(a, stats[a]).execution_count = returned[a])
    /\ [][(pc = "agent" /\ node' = node + 1) =>
             /\ IF Succeeded(result'[1].out)
                THEN Counters(stats', result'[1].agent)[1]
                         = Counters(stats, result'[1].agent)[1] + 1
                ELSE Counters(stats', result'[1].agent)
                         = Counters(stats, result'[1].agent)
             /\ \A a \in DOMAIN agents \ {result'[1].agent} :
                    Counters(stats', a) = Counters(stats, a)]_vars

C29_Witness ==
    /\ pc = "agent"
    /\ node = 3
    /\ ~Succeeded(result[1].out)
    /\ get_stats(result[1].agent, stats[result[1].agent]).execution_count = 2
    /\ returned[result[1].agent] = 2

\* C30: _make_request_with_retry makes at most max_retries attempts; it
\* returns the response of the first attempt that succeeds and makes no
\* attempt after it; it has slept 2 ** i seconds after each failed attempt
\* i that another attempt follows; when all attempts fail it raises the
\* error of the last one; it never returns without a response
C30_BoundedRetry ==
    /\ Len(calls) <= max_retries
    /\ \A i \in 1..(Len(calls) - 1) : calls[i].out.raised
    /\ pc \in {"request", "sleeping"} =>
           (result = <<>> /\ raised = <<>> /\ \A i \in 1..Len(calls) : calls[i].out.raised)
    /\ pc = "request" => (Len(calls) = node /\ clock = 2 ^ node - 1)
    /\ pc = "returned" =>
           /\ Len(calls) > 0
           /\ ~calls[Len(calls)].out.raised
           /\ result = <<calls[Len(calls)].out.value>>
           /\ result[1] # None
           /\ raised = <<>>
           /\ clock = 2 ^ (Len(calls) - 1) - 1
    /\ pc = "raised" =>
           /\ Len(calls) > 0
           /\ calls[Len(calls)].out.raised
           /\ raised = <<calls[Len(calls)].out.exc>>
           /\ result = <<>>
           /\ (raised[1].type \in RequestExceptions => Len(calls) = max_retries)

C30_Witness ==
    /\ pc = "returned"
    /\ Len(calls) = max_retries
    /\ clock = 3
    /\ result[1].attempt = max_retries - 1

====
